---------------------------- MODULE Spec2Model ----------------------------
(***************************************************************************)
(* A model of libtcod's tileset (src/libtcod/tileset.c): the pixel arena,  *)
(* the codepoint -> tile id charmap, the observer list, reference counting *)
(* and the font atlas loader.                                              *)
(*                                                                         *)
(* C arrays are 0-indexed functions.  A TCOD_Tileset is a record with the  *)
(* fields of the struct; `heap' says whether the caller's tileset pointer  *)
(* is NULL, points to a live struct or to a freed one.                     *)
(***************************************************************************)
EXTENDS Integers, Sequences, FiniteSets, TLC

VARIABLES
  heap,           \* "null" | "live" | "freed" | "crashed" | "hung": what the caller's TCOD_Tileset* is
  tileset,        \* the fields of struct TCOD_Tileset
  origin,         \* "none" | "create" | "load": which constructor made the tileset
  base_tiles,     \* tiles_capacity the constructor left (0 for create, columns*rows for load)
  next_observer,  \* number of observers allocated so far: the next observer's identity
  lastOp,         \* the last call made: its name and arguments
  ret,            \* the value the last call returned
  buffer,         \* the caller's output buffer after the last call
  trace,          \* callbacks invoked and memory freed by the last call, in order
  n_share,        \* share() calls made on the tileset so far
  n_release,      \* release() calls made on the tileset so far
  touched,        \* the codepoints an assign, a set_tile or the loader has mapped so far
  ended           \* deletion hook calls and frees of observers over the tileset's life, in order

vars == <<heap, tileset, origin, base_tiles, next_observer, lastOp, ret,
          buffer, trace, n_share, n_release, touched, ended>>

----------------------------------------------------------------------------
(* Program constants and pixel values                                       *)

DEFAULT_TILES_LENGTH == 256
DEFAULT_CHARMAP_LENGTH == 256
\* The width of the C int in this model (32 in the build).
IntBits == 13

\* struct TCOD_ColorRGBA
RGBA(r, g, b, a) == [r |-> r, g |-> g, b |-> b, a |-> a]
ZeroPixel == RGBA(0, 0, 0, 0)

\* An array of n elements, all equal to v.
Filled(n, v) == [i \in 0..(n - 1) |-> v]
ArrayLen(arr) == Cardinality(DOMAIN arr)
EmptyArray == Filled(0, 0)

\* What calloc leaves in a struct TCOD_Tileset.
ZeroTileset ==
  [ tile_width |-> 0, tile_height |-> 0, tile_length |-> 0,
    tiles_capacity |-> 0, tiles_count |-> 0, pixels |-> EmptyArray,
    character_map_length |-> 0, character_map |-> EmptyArray,
    observer_list |-> <<>>, virtual_columns |-> 0, ref_count |-> 0 ]

\* No call yet.
NoOp == [op |-> "none", codepoint |-> 0, tile_id |-> 0, block |-> EmptyArray,
         image |-> EmptyArray, columns |-> 0, rows |-> 0,
         font_width |-> 0, n |-> 0, charmap |-> <<>>, has_charmap |-> FALSE,
         observer |-> -1, has_buffer |-> FALSE, decode_ok |-> TRUE,
         alloc_pixels |-> TRUE]

----------------------------------------------------------------------------
(* The charmap                                                              *)

\* TCOD_tileset_get_charmap: -1 outside the array, the stored id inside.
TCOD_tileset_get_charmap(ts, codepoint) ==
  IF codepoint < 0 \/ codepoint >= ts.character_map_length
    THEN -1
    ELSE ts.character_map[codepoint]

\* The loop `while (codepoint >= new_length) { new_length *= 2; }'.
RECURSIVE DoubleUntilAbove(_, _)
DoubleUntilAbove(new_length, codepoint) ==
  IF codepoint >= new_length
    THEN DoubleUntilAbove(new_length * 2, codepoint)
    ELSE new_length

\* The length assign grows the charmap to, for a codepoint beyond it.
CharmapNewLength(character_map_length, codepoint) ==
  DoubleUntilAbove(
    IF character_map_length = 0 THEN DEFAULT_CHARMAP_LENGTH
                                ELSE character_map_length,
    codepoint)

\* The C int, scaled down to IntBits bits: its largest value, and the value
\* a result takes when signed arithmetic wraps.
IntMax == 2 ^ (IntBits - 1) - 1
WrapInt(x) == ((x + 2 ^ (IntBits - 1)) % (2 ^ IntBits)) - 2 ^ (IntBits - 1)

\* The loop `while (codepoint >= new_length) { new_length *= 2; }' on ints
\* that wrap.  ends: the loop exits (once new_length is 0 it stays 0 and the
\* loop never exits, as codepoint >= 0); overflowed: a doubling overflowed.
RECURSIVE DoubleUntilAboveInt(_, _)
DoubleUntilAboveInt(new_length, codepoint) ==
  IF ~(codepoint >= new_length)
    THEN [ends |-> TRUE, overflowed |-> FALSE, new_length |-> new_length]
  ELSE IF new_length = 0
    THEN [ends |-> FALSE, overflowed |-> FALSE, new_length |-> 0]
  ELSE [DoubleUntilAboveInt(WrapInt(new_length * 2), codepoint) EXCEPT
          !.overflowed = @ \/ new_length * 2 > IntMax
                           \/ new_length * 2 < -IntMax - 1]

\* The loop of assign run from the length it starts with.
CharmapNewLengthInt(character_map_length, codepoint) ==
  DoubleUntilAboveInt(
    IF character_map_length = 0 THEN DEFAULT_CHARMAP_LENGTH
                                ELSE character_map_length,
    codepoint)

\* CharmapGrown with the old entries not carried over (a fresh zeroed array).
CharmapGrown_fresh(character_map, old_length, new_length) ==
  [i \in 0..(new_length - 1) |-> 0]

\* realloc to new_length ints, then the loop that zeroes the new slots.
CharmapGrown(character_map, old_length, new_length) ==
  [i \in 0..(new_length - 1) |->
     IF i < old_length THEN character_map[i] ELSE 0]

\* TCOD_tileset_assign_charmap without the upper bound on tile_id.
TCOD_tileset_assign_charmap_unbounded(ts, codepoint, tile_id, alloc_ok) ==
  IF tile_id < 0 \/ codepoint < 0 THEN [ret |-> -1, ts |-> ts]
  ELSE IF codepoint >= ts.character_map_length
    THEN
      IF ~alloc_ok THEN [ret |-> -1, ts |-> ts]
      ELSE [ret |-> tile_id,
            ts |-> [ts EXCEPT
                      !.character_map_length =
                         CharmapNewLength(ts.character_map_length, codepoint),
                      !.character_map =
                         [CharmapGrown(ts.character_map,
                            ts.character_map_length,
                            CharmapNewLength(ts.character_map_length,
                                             codepoint))
                            EXCEPT ![codepoint] = tile_id]]]
    ELSE [ret |-> tile_id,
          ts |-> [ts EXCEPT !.character_map[codepoint] = tile_id]]

\* TCOD_tileset_assign_charmap that accepts tile_id = tiles_count.
TCOD_tileset_assign_charmap_inclusive(ts, codepoint, tile_id, alloc_ok) ==
  IF tile_id < 0 \/ tile_id > ts.tiles_count THEN [ret |-> -1, ts |-> ts]
  ELSE IF codepoint < 0 THEN [ret |-> -1, ts |-> ts]
  ELSE IF codepoint >= ts.character_map_length
    THEN
      IF ~alloc_ok THEN [ret |-> -1, ts |-> ts]
      ELSE [ret |-> tile_id,
            ts |-> [ts EXCEPT
                      !.character_map_length =
                         CharmapNewLength(ts.character_map_length, codepoint),
                      !.character_map =
                         [CharmapGrown(ts.character_map,
                            ts.character_map_length,
                            CharmapNewLength(ts.character_map_length,
                                             codepoint))
                            EXCEPT ![codepoint] = tile_id]]]
    ELSE [ret |-> tile_id,
          ts |-> [ts EXCEPT !.character_map[codepoint] = tile_id]]

\* TCOD_tileset_assign_charmap on a live tileset.  alloc_ok: realloc succeeds.
TCOD_tileset_assign_charmap(ts, codepoint, tile_id, alloc_ok) ==
  IF tile_id < 0 \/ tile_id >= ts.tiles_count THEN [ret |-> -1, ts |-> ts]
  ELSE IF codepoint < 0 THEN [ret |-> -1, ts |-> ts]
  ELSE IF codepoint >= ts.character_map_length
    THEN
      LET new_length == CharmapNewLength(ts.character_map_length, codepoint)
          new_charmap == CharmapGrown(ts.character_map,
                                      ts.character_map_length, new_length)
      IN IF ~alloc_ok THEN [ret |-> -1, ts |-> ts]
         ELSE [ret |-> tile_id,
               ts |-> [ts EXCEPT !.character_map_length = new_length,
                                 !.character_map =
                                    [new_charmap EXCEPT ![codepoint] = tile_id]]]
    ELSE [ret |-> tile_id,
          ts |-> [ts EXCEPT !.character_map[codepoint] = tile_id]]

----------------------------------------------------------------------------
(* The pixel arena                                                          *)

\* `new_capacity = tiles_capacity * 2; if (new_capacity == 0) ...'
NewCapacity(tiles_capacity) ==
  IF tiles_capacity * 2 = 0 THEN DEFAULT_TILES_LENGTH ELSE tiles_capacity * 2

\* PixelsGrown without the loop that clears the new tiles: they hold
\* whatever the allocator left there.
PixelsGrown_uncleared(pixels, old_capacity, new_capacity, tile_length) ==
  [i \in 0..(new_capacity * tile_length - 1) |->
     IF i < old_capacity * tile_length THEN pixels[i] ELSE RGBA(1, 2, 3, 4)]

\* realloc to new_capacity tiles, then the loop that clears the new tiles.
PixelsGrown(pixels, old_capacity, new_capacity, tile_length) ==
  [i \in 0..(new_capacity * tile_length - 1) |->
     IF i < old_capacity * tile_length THEN pixels[i] ELSE ZeroPixel]

\* The arena of a tileset that is at capacity, grown:
\* `if (tileset->tiles_count == tileset->tiles_capacity) { ... }'
ArenaGrown(ts) ==
  IF ts.tiles_count = ts.tiles_capacity
    THEN [ts EXCEPT !.tiles_capacity = NewCapacity(ts.tiles_capacity),
                    !.pixels = PixelsGrown(ts.pixels, ts.tiles_capacity,
                                           NewCapacity(ts.tiles_capacity),
                                           ts.tile_length)]
    ELSE ts

\* `if (tileset->tiles_count == 0) { tileset->tiles_count = 1; }'
BlankKept(tiles_count) == IF tiles_count = 0 THEN 1 ELSE tiles_count

\* `tile_id = tileset->tiles_count++;' and the assign that ends generate.
TileTaken(ts, codepoint, alloc_charmap) ==
  TCOD_tileset_assign_charmap(
    [ts EXCEPT !.tiles_count = BlankKept(ts.tiles_count) + 1],
    codepoint, BlankKept(ts.tiles_count), alloc_charmap)

\* TCOD_tileset_generate_charmap on a live tileset.
\* alloc_pixels, alloc_charmap: the realloc of the arena / of the charmap succeeds.
TCOD_tileset_generate_charmap(ts, codepoint, alloc_pixels, alloc_charmap) ==
  IF TCOD_tileset_get_charmap(ts, codepoint) > 0
    THEN [ret |-> TCOD_tileset_get_charmap(ts, codepoint), ts |-> ts]
  ELSE IF ts.tiles_count = ts.tiles_capacity /\ ~alloc_pixels
    THEN [ret |-> -1, ts |-> ts]
  ELSE TileTaken(ArenaGrown(ts), codepoint, alloc_charmap)

\* The tile_length pixels at `tileset->pixels + tileset->tile_length * tile_id'.
TileAt(ts, tile_id) ==
  [k \in 0..(ts.tile_length - 1) |-> ts.pixels[ts.tile_length * tile_id + k]]

\* memcpy(dst + offset, src, count elements), from element k on.
RECURSIVE Memcpy(_, _, _, _, _)
Memcpy(dst, offset, src, k, count) ==
  IF k >= count THEN dst
  ELSE Memcpy([dst EXCEPT ![offset + k] = src[k]], offset, src, k + 1, count)

\* TileWritten with the block converted the way the loader converts an
\* opaque grey-scale cell: white, the grey level as alpha.
TileWritten_normalized(ts, tile_id, block) ==
  Memcpy(ts.pixels, ts.tile_length * tile_id,
         [k \in 0..(ts.tile_length - 1) |->
            [r |-> 255, g |-> 255, b |-> 255, a |-> block[k].r]],
         0, ts.tile_length)

\* TileWritten with the copy starting one pixel late.
TileWritten_late(ts, tile_id, block) ==
  Memcpy(ts.pixels, ts.tile_length * tile_id, block, 1, ts.tile_length)

\* tileset->pixels after
\* `memcpy(tile, buffer, sizeof(tile[0]) * tileset->tile_length)'
\* with tile = tileset->pixels + tileset->tile_length * tile_id.
TileWritten(ts, tile_id, block) ==
  Memcpy(ts.pixels, ts.tile_length * tile_id, block, 0, ts.tile_length)

\* TCOD_tileset_get_tile with the blank tile id 0 taken for "no tile".
TCOD_tileset_get_tile_positive(ts, codepoint) ==
  ~(TCOD_tileset_get_charmap(ts, codepoint) <= 0)

\* TCOD_tileset_get_tile: is there a tile pointer for the codepoint (not NULL)?
TCOD_tileset_get_tile(ts, codepoint) ==
  ~(TCOD_tileset_get_charmap(ts, codepoint) < 0)

\* TCOD_tileset_get_tile_ on a live tileset: the status and the buffer after
\* the call.  has_buffer: the caller passed a buffer; buf: what it held.
TCOD_tileset_get_tile_(ts, codepoint, has_buffer, buf) ==
  IF ~TCOD_tileset_get_tile(ts, codepoint) THEN [ret |-> -1, buffer |-> buf]
  ELSE IF ~has_buffer THEN [ret |-> 0, buffer |-> buf]
  ELSE [ret |-> 0,
        buffer |-> TileAt(ts, TCOD_tileset_get_charmap(ts, codepoint))]

----------------------------------------------------------------------------
(* Observers                                                                *)

\* What TCOD_tileset_observer_new leaves in a struct TCOD_TilesetObserver:
\* calloc'ed, so both hooks are NULL.  `id' stands for the node's address;
\* `next' is the position in tileset.observer_list (head first).
\* on_tileset_changed / on_observer_delete: the hook is not NULL;
\* changed_status: the status the caller's change hook returns.
NewObserver(id) ==
  [id |-> id, on_tileset_changed |-> FALSE, changed_status |-> 0,
   on_observer_delete |-> FALSE]

\* An entry of `trace'.
Event(event, observer, tile_id, codepoint) ==
  [event |-> event, observer |-> observer, tile_id |-> tile_id,
   codepoint |-> codepoint]

\* TCOD_tileset_observer_new with the node linked at the tail of the list.
TCOD_tileset_observer_new_tail(ts, id) ==
  [ts EXCEPT !.observer_list = ts.observer_list \o <<NewObserver(id)>>]

\* TCOD_tileset_observer_new: link the new node at the head of the list.
TCOD_tileset_observer_new(ts, id) ==
  [ts EXCEPT !.observer_list = <<NewObserver(id)>> \o ts.observer_list]

\* The list with the node at position i unlinked (`*it = observer->next').
Unlinked(list, i) ==
  SubSeq(list, 1, i - 1) \o SubSeq(list, i + 1, Len(list))

\* TCOD_tileset_observer_delete calling the deletion hook twice.
ObserverDeleteEvents_twice(observer) ==
  (IF observer.on_observer_delete
     THEN <<Event("on_observer_delete", observer.id, -1, -1),
            Event("on_observer_delete", observer.id, -1, -1)>>
     ELSE <<>>)
  \o <<Event("free_observer", observer.id, -1, -1)>>

\* The hook call and the free of TCOD_tileset_observer_delete, once unlinked.
ObserverDeleteEvents(observer) ==
  (IF observer.on_observer_delete
     THEN <<Event("on_observer_delete", observer.id, -1, -1)>>
     ELSE <<>>)
  \o <<Event("free_observer", observer.id, -1, -1)>>

\* TCOD_tileset_observer_delete of the node at position i of the list.
TCOD_tileset_observer_delete(ts, i) ==
  [ts |-> [ts EXCEPT !.observer_list = Unlinked(ts.observer_list, i)],
   trace |-> ObserverDeleteEvents(ts.observer_list[i])]

\* The loop of TCOD_tileset_set_tile_ over the observers from position i on:
\* nodes without a change hook are skipped, the first nonzero status ends it.
RECURSIVE NotifyFrom(_, _, _, _)
NotifyFrom(list, i, tile_id, codepoint) ==
  IF i > Len(list) THEN [ret |-> 0, trace |-> <<>>]
  ELSE IF ~list[i].on_tileset_changed
    THEN NotifyFrom(list, i + 1, tile_id, codepoint)
  ELSE
    LET call == Event("on_tileset_changed", list[i].id, tile_id, codepoint)
        rest == NotifyFrom(list, i + 1, tile_id, codepoint)
    IN IF list[i].changed_status # 0
         THEN [ret |-> list[i].changed_status, trace |-> <<call>>]
         ELSE [ret |-> rest.ret, trace |-> <<call>> \o rest.trace]

\* The notification loop of TCOD_tileset_set_tile_.
NotifyObservers(list, tile_id, codepoint) ==
  NotifyFrom(list, 1, tile_id, codepoint)

\* Which tile id TCOD_tileset_set_tile_ resolves the codepoint to.
ResolveForWrite(ts, codepoint, alloc_pixels, alloc_charmap) ==
  IF TCOD_tileset_get_charmap(ts, codepoint) < 0
    THEN TCOD_tileset_generate_charmap(ts, codepoint, alloc_pixels,
                                       alloc_charmap)
    ELSE [ret |-> TCOD_tileset_get_charmap(ts, codepoint), ts |-> ts]

\* The write undone when a hook returns nonzero.
WriteAndNotify_rollback(resolved, codepoint, block) ==
  IF resolved.ret < 0
    THEN [ret |-> resolved.ret, ts |-> resolved.ts, trace |-> <<>>]
    ELSE [ret |-> NotifyObservers(resolved.ts.observer_list, resolved.ret,
                                  codepoint).ret,
          ts |-> IF NotifyObservers(resolved.ts.observer_list, resolved.ret,
                                    codepoint).ret # 0
                   THEN resolved.ts
                   ELSE [resolved.ts EXCEPT
                           !.pixels = TileWritten(resolved.ts, resolved.ret,
                                                  block)],
          trace |-> <<Event("memcpy", -1, resolved.ret, codepoint)>>
                    \o NotifyObservers(resolved.ts.observer_list,
                                       resolved.ret, codepoint).trace]

\* TCOD_tileset_set_tile_ from `if (tile_id < 0) { return tile_id; }' on:
\* the memcpy into the resolved slot, then the notification loop.
WriteAndNotify(resolved, codepoint, block) ==
  IF resolved.ret < 0
    THEN [ret |-> resolved.ret, ts |-> resolved.ts, trace |-> <<>>]
    ELSE [ret |-> NotifyObservers(resolved.ts.observer_list, resolved.ret,
                                  codepoint).ret,
          ts |-> [resolved.ts EXCEPT
                    !.pixels = TileWritten(resolved.ts, resolved.ret, block)],
          trace |-> <<Event("memcpy", -1, resolved.ret, codepoint)>>
                    \o NotifyObservers(resolved.ts.observer_list,
                                       resolved.ret, codepoint).trace]

\* TCOD_tileset_set_tile_ on a live tileset.
TCOD_tileset_set_tile_(ts, codepoint, block, alloc_pixels, alloc_charmap) ==
  WriteAndNotify(
    ResolveForWrite(ts, codepoint, alloc_pixels, alloc_charmap),
    codepoint, block)

----------------------------------------------------------------------------
(* Lifecycle                                                                *)

\* TCOD_tileset_new
TCOD_tileset_new(tile_width, tile_height) ==
  [ZeroTileset EXCEPT !.ref_count = 1,
                      !.tile_width = tile_width,
                      !.tile_height = tile_height,
                      !.tile_length = tile_width * tile_height,
                      !.virtual_columns = 1]

\* `while (tileset->observer_list) TCOD_tileset_observer_delete(...)'
RECURSIVE DeleteAllObservers(_)
DeleteAllObservers(ts) ==
  IF ts.observer_list = <<>> THEN [ts |-> ts, trace |-> <<>>]
  ELSE LET head == TCOD_tileset_observer_delete(ts, 1)
           rest == DeleteAllObservers(head.ts)
       IN [ts |-> rest.ts, trace |-> head.trace \o rest.trace]

\* The three free() calls that end TCOD_tileset_delete.
FreeEvents ==
  <<Event("free_pixels", -1, -1, -1), Event("free_character_map", -1, -1, -1),
    Event("free_tileset", -1, -1, -1)>>

\* TCOD_tileset_delete that destroys the tileset whatever the count.
TCOD_tileset_delete_uncounted(ts) ==
  LET dec == [ts EXCEPT !.ref_count = ts.ref_count - 1]
      cleared == DeleteAllObservers(dec)
  IN [freed |-> TRUE, ts |-> cleared.ts, trace |-> cleared.trace \o FreeEvents]

\* TCOD_tileset_delete on a live tileset: freed says whether it was destroyed.
TCOD_tileset_delete(ts) ==
  LET dec == [ts EXCEPT !.ref_count = ts.ref_count - 1]
      cleared == DeleteAllObservers(dec)
  IN IF ts.ref_count - 1 # 0
       THEN [freed |-> FALSE, ts |-> dec, trace |-> <<>>]
       ELSE [freed |-> TRUE, ts |-> cleared.ts,
             trace |-> cleared.trace \o FreeEvents]

----------------------------------------------------------------------------
(* The font atlas loader                                                    *)

\* Equality of two struct TCOD_ColorRGBA, channel by channel.
SameColor(p, q) == p.r = q.r /\ p.g = q.g /\ p.b = q.b /\ p.a = q.a

\* The pixels (x, y) of a tile_width x tile_height cell.
CellXY(tile_width, tile_height) ==
  (0..(tile_width - 1)) \X (0..(tile_height - 1))

\* The color key check: color_key stays &font[0] iff every pixel of the
\* first cell equals font[0].
HasColorKey(font, font_width, tile_width, tile_height) ==
  \A xy \in CellXY(tile_width, tile_height) :
     SameColor(font[xy[2] * font_width + xy[1]], font[0])

\* font_i: the index in font of the first pixel of cell i.
FontIndex(i, columns, font_width, tile_width, tile_height) ==
  ((i \div columns) * tile_height) * font_width + (i % columns) * tile_width

\* has_color / has_alpha of the cell that starts at font_i.
HasColor(font, font_i, font_width, tile_width, tile_height) ==
  \E xy \in CellXY(tile_width, tile_height) :
     LET pixel == font[font_i + xy[2] * font_width + xy[1]]
     IN pixel.r # pixel.g \/ pixel.r # pixel.b

\* has_alpha that looks at the first pixel of the cell only.
HasAlpha_first(font, font_i, font_width, tile_width, tile_height) ==
  font[font_i].a # 255

HasAlpha(font, font_i, font_width, tile_width, tile_height) ==
  \E xy \in CellXY(tile_width, tile_height) :
     font[font_i + xy[2] * font_width + xy[1]].a # 255

\* `pixel.a = pixel.r; pixel.r = pixel.g = pixel.b = 0xff;' for a grey-scale
\* cell, the pixel as it is otherwise.
Normalized(pixel, has_color, has_alpha) ==
  IF ~has_color /\ ~has_alpha THEN RGBA(255, 255, 255, pixel.r) ELSE pixel

\* `Set key-color pixels to zero': the test is made on the pixel as it is
\* after normalization (the local variable `pixel' was overwritten).
KeySubstituted(pixel, has_key, color_key) ==
  IF has_key /\ SameColor(color_key, pixel) THEN ZeroPixel ELSE pixel

\* The pixel the loader stores for pixel (x, y) of cell i.
LoadedPixel(font, font_width, columns, tile_width, tile_height, i, x, y) ==
  LET font_i == FontIndex(i, columns, font_width, tile_width, tile_height)
      has_color == HasColor(font, font_i, font_width, tile_width, tile_height)
      has_alpha == HasAlpha(font, font_i, font_width, tile_width, tile_height)
      has_key == HasColorKey(font, font_width, tile_width, tile_height)
  IN KeySubstituted(
       Normalized(font[font_i + y * font_width + x], has_color, has_alpha),
       has_key, font[0])

\* tileset->pixels after the loop over the font_tiles cells.
LoadedPixels(font, font_width, columns, tile_width, tile_height, font_tiles) ==
  [j \in 0..(font_tiles * tile_width * tile_height - 1) |->
     LET i == j \div (tile_width * tile_height)
         k == j % (tile_width * tile_height)
     IN LoadedPixel(font, font_width, columns, tile_width, tile_height,
                    i, k % tile_width, k \div tile_width)]

\* The assign loop with the list read one entry late (charmap[i - 1]).
RECURSIVE LoadAssign_late(_, _, _, _, _, _)
LoadAssign_late(ts, i, n, has_charmap, charmap, alloc_ok) ==
  IF ~(i < n) THEN [ok |-> TRUE, ts |-> ts]
  ELSE
    LET codepoint == IF has_charmap THEN charmap[IF i = 0 THEN n ELSE i]
                                    ELSE (i + n - 1) % n
        assigned == TCOD_tileset_assign_charmap(ts, codepoint, i, alloc_ok)
    IN IF assigned.ret < 0
         THEN [ok |-> FALSE, ts |-> assigned.ts]
         ELSE LoadAssign_late(assigned.ts, i + 1, n, has_charmap, charmap,
                              alloc_ok)

\* The loop `for (i = 0; i < n; ++i) assign(codepoint, i)' from index i on.
\* charmap is the caller's list, charmap[i + 1] its i-th entry.
\* alloc_ok: the reallocs of the charmap succeed.
RECURSIVE LoadAssign(_, _, _, _, _, _)
LoadAssign(ts, i, n, has_charmap, charmap, alloc_ok) ==
  IF ~(i < n) THEN [ok |-> TRUE, ts |-> ts]
  ELSE
    LET codepoint == IF has_charmap THEN charmap[i + 1] ELSE i
        assigned == TCOD_tileset_assign_charmap(ts, codepoint, i, alloc_ok)
    IN IF assigned.ret < 0
         THEN [ok |-> FALSE, ts |-> assigned.ts]
         ELSE LoadAssign(assigned.ts, i + 1, n, has_charmap, charmap, alloc_ok)

\* The end of TCOD_tileset_load that returns the tileset though an assign
\* failed.
LoadEnded_partial(mapped) ==
  [ok |-> TRUE, ts |-> mapped.ts,
   trace |-> <<Event("free_font", -1, -1, -1)>>]

\* The end of TCOD_tileset_load: the tileset is returned, or deleted when
\* an assign failed.
LoadEnded(mapped) ==
  IF ~mapped.ok
    THEN [ok |-> FALSE, ts |-> TCOD_tileset_delete(mapped.ts).ts,
          trace |-> <<Event("free_font", -1, -1, -1)>>
                    \o TCOD_tileset_delete(mapped.ts).trace]
    ELSE [ok |-> TRUE, ts |-> mapped.ts,
          trace |-> <<Event("free_font", -1, -1, -1)>>]

\* TCOD_tileset_load from the malloc of the arena on; new is the tileset
\* TCOD_tileset_new returned.
LoadInto(new, font, font_width, columns, rows, n, has_charmap, charmap, alloc_pixels, alloc_charmap) ==
  IF ~alloc_pixels
    THEN [ok |-> FALSE, ts |-> TCOD_tileset_delete(new).ts,
          trace |-> <<Event("free_font", -1, -1, -1)>>
                    \o TCOD_tileset_delete(new).trace]
    ELSE LoadEnded(
           LoadAssign(
             [new EXCEPT
                !.tiles_capacity = columns * rows,
                !.tiles_count = columns * rows,
                !.pixels = LoadedPixels(font, font_width, columns,
                             new.tile_width, new.tile_height, columns * rows)],
             0, IF has_charmap THEN n ELSE columns * rows,
             has_charmap, charmap, alloc_charmap))

\* TCOD_tileset_load once the file is decoded into font (font_width x
\* font_height pixels) and TCOD_tileset_new has succeeded.
\* alloc_pixels: the malloc of the arena succeeds.
TCOD_tileset_load(font, font_width, font_height, columns, rows, n, has_charmap, charmap, alloc_pixels, alloc_charmap) ==
  LoadInto([TCOD_tileset_new(font_width \div columns, font_height \div rows)
              EXCEPT !.virtual_columns = columns],
           font, font_width, columns, rows, n, has_charmap, charmap,
           alloc_pixels, alloc_charmap)

----------------------------------------------------------------------------
(* Bounds of the model                                                      *)

MaxTiles == 2        \* no tile is generated once tiles_count has reached it
MaxObservers == 2    \* observers attached at one time
MaxAttach == 3       \* observers allocated over a tileset's life
MaxShare == 1        \* share() calls over a tileset's life
MaxGrowTiles == 257  \* tiles_count of a created tileset whose arena grows
MaxLoadTiles == 5    \* tiles_count of a loaded tileset whose arena grows

\* The buffer the caller hands to get_tile: tile_length pixels of a value
\* no tile holds.
Scratch(tile_length) == Filled(tile_length, RGBA(1, 2, 3, 4))

----------------------------------------------------------------------------
(* The calls                                                                *)

\* The entries of a call's trace that end an observer: the call of its
\* deletion hook and its free.
ObserverEnds(events) ==
  SelectSeq(events,
            LAMBDA e : e.event \in {"on_observer_delete", "free_observer"})

\* A call that leaves the tileset and the caller's pointer as they are.
Returns(op, value, events) ==
  /\ lastOp' = op
  /\ ret' = value
  /\ trace' = events
  /\ buffer' = EmptyArray
  /\ UNCHANGED <<heap, tileset, origin, base_tiles, next_observer,
                 n_share, n_release, touched, ended>>

\* A call on the live tileset that leaves it as ts, the codepoints of
\* `mapped' newly mapped.
Updates(op, value, events, ts, mapped) ==
  /\ lastOp' = op
  /\ ret' = value
  /\ trace' = events
  /\ buffer' = EmptyArray
  /\ tileset' = ts
  /\ touched' = touched \cup mapped
  /\ ended' = ended \o ObserverEnds(events)
  /\ UNCHANGED <<heap, origin, base_tiles, next_observer, n_share, n_release>>

\* The caller's pointer becomes p (NULL or that of a crashed process) and
\* nothing is left of the tileset.
Gone(op, p, value, events) ==
  /\ lastOp' = op
  /\ ret' = value
  /\ trace' = events
  /\ buffer' = EmptyArray
  /\ heap' = p
  /\ tileset' = ZeroTileset
  /\ origin' = "none"
  /\ base_tiles' = 0
  /\ next_observer' = 0
  /\ n_share' = 0
  /\ n_release' = 0
  /\ touched' = {}
  /\ ended' = <<>>

\* A constructor returned the tileset ts, the codepoints of `mapped' mapped.
Made(op, by, ts, events, mapped) ==
  /\ lastOp' = op
  /\ ret' = 1
  /\ trace' = events
  /\ buffer' = EmptyArray
  /\ heap' = "live"
  /\ tileset' = ts
  /\ origin' = by
  /\ base_tiles' = ts.tiles_capacity
  /\ next_observer' = 0
  /\ n_share' = 0
  /\ n_release' = 0
  /\ touched' = mapped
  /\ ended' = <<>>

\* TCOD_tileset_load returned: NULL, or the tileset with `mapped' mapped.
Loaded(op, loaded, mapped) ==
  IF ~loaded.ok THEN Gone(op, "null", 0, loaded.trace)
                ELSE Made(op, "load", loaded.ts, loaded.trace, mapped)

\* TCOD_tileset_set_tile_ returned.
Written(op, done) ==
  Updates(op, done.ret, done.trace, done.ts,
          IF done.trace # <<>> THEN {op.codepoint} ELSE {})

\* TCOD_tileset_assign_charmap returned.
Assigned(op, done) ==
  Updates(op, done.ret, <<>>, done.ts,
          IF done.ret >= 0 THEN {op.codepoint} ELSE {})

\* create(width, height): TCOD_tileset_new; alloc_ok: calloc succeeds.
Create(tile_width, tile_height, alloc_ok) ==
  /\ heap \in {"null", "freed"}
  /\ LET op == [NoOp EXCEPT !.op = "create"]
     IN IF alloc_ok
          THEN Made(op, "create", TCOD_tileset_new(tile_width, tile_height),
                    <<>>, {})
          ELSE Gone(op, "null", 0, <<>>)

\* load: TCOD_tileset_load.  decode_ok: lodepng decodes the file;
\* alloc_new: the calloc of TCOD_tileset_new succeeds (its result is used
\* unchecked, so a failure ends the process).
Load(font, font_width, font_height, columns, rows, n, has_charmap, charmap, decode_ok, alloc_new, alloc_pixels, alloc_charmap) ==
  /\ heap \in {"null", "freed"}
  /\ LET op == [NoOp EXCEPT !.op = "load", !.image = font,
                            !.decode_ok = decode_ok,
                            !.alloc_pixels = alloc_pixels,
                            !.font_width = font_width,
                            !.columns = columns, !.rows = rows, !.n = n,
                            !.has_charmap = has_charmap, !.charmap = charmap]
         loaded == TCOD_tileset_load(font, font_width, font_height, columns,
                     rows, n, has_charmap, charmap, alloc_pixels,
                     alloc_charmap)
         count == IF has_charmap THEN n ELSE columns * rows
     IN IF ~decode_ok THEN Gone(op, "null", 0, <<>>)
        ELSE IF ~alloc_new
          THEN Gone([NoOp EXCEPT !.op = "load"], "crashed", 0, <<>>)
        ELSE Loaded(op, loaded,
                    {(IF has_charmap THEN charmap[i + 1] ELSE i) :
                       i \in 0..(count - 1)})

\* set_tile(codepoint, block): TCOD_tileset_set_tile_
SetTile(codepoint, block, alloc_pixels, alloc_charmap) ==
  LET op == [NoOp EXCEPT !.op = "set_tile", !.codepoint = codepoint,
                         !.block = block]
  IN IF heap = "null" THEN Returns(op, -1, <<>>)
     ELSE /\ heap = "live"
          /\ Written(op, TCOD_tileset_set_tile_(tileset, codepoint, block,
                                                alloc_pixels, alloc_charmap))

\* get_tile(codepoint, buffer): TCOD_tileset_get_tile_
GetTile(codepoint, has_buffer) ==
  LET op == [NoOp EXCEPT !.op = "get_tile", !.codepoint = codepoint,
                         !.has_buffer = has_buffer]
      buf == IF has_buffer THEN Scratch(tileset.tile_length) ELSE EmptyArray
      got == TCOD_tileset_get_tile_(tileset, codepoint, has_buffer, buf)
  IN /\ heap \in {"null", "live"}
     /\ lastOp' = op
     /\ ret' = IF heap = "null" THEN -1 ELSE got.ret
     /\ buffer' = IF heap = "null" THEN buf ELSE got.buffer
     /\ trace' = <<>>
     /\ UNCHANGED <<heap, tileset, origin, base_tiles, next_observer,
                    n_share, n_release, touched, ended>>

\* assign(codepoint, tile_id): TCOD_tileset_assign_charmap
Assign(codepoint, tile_id, alloc_ok) ==
  LET op == [NoOp EXCEPT !.op = "assign", !.codepoint = codepoint,
                         !.tile_id = tile_id]
  IN IF heap = "null" THEN Returns(op, -1, <<>>)
     ELSE /\ heap = "live"
          /\ Assigned(op, TCOD_tileset_assign_charmap(tileset, codepoint,
                                                      tile_id, alloc_ok))

\* assign(codepoint, tile_id) with the doubling loop run on ints of IntBits
\* bits.  A doubling that overflows is undefined behaviour; overflow says
\* what the build makes of it: "wraps" (the loop then never exits and the
\* call never returns) or "traps" (the process ends).  Without an overflow
\* the call is Assign.
AssignInt(codepoint, tile_id, alloc_ok, overflow) ==
  LET op == [NoOp EXCEPT !.op = "assign", !.codepoint = codepoint,
                         !.tile_id = tile_id]
      loop == CharmapNewLengthInt(tileset.character_map_length, codepoint)
  IN /\ heap = "live"
     /\ IF /\ tile_id >= 0 /\ tile_id < tileset.tiles_count
           /\ codepoint >= tileset.character_map_length
           /\ loop.overflowed
          THEN Gone(op, IF overflow = "wraps" /\ ~loop.ends THEN "hung"
                                                            ELSE "crashed",
                    0, <<>>)
          ELSE Assigned(op, TCOD_tileset_assign_charmap(tileset, codepoint,
                                                        tile_id, alloc_ok))

\* attach: TCOD_tileset_observer_new.  The calloc result is used unchecked,
\* so a failed calloc ends the process.
Attach(alloc_ok) ==
  LET op == [NoOp EXCEPT !.op = "attach", !.observer = next_observer]
  IN IF heap = "null" THEN Returns([NoOp EXCEPT !.op = "attach"], 0, <<>>)
     ELSE /\ heap = "live"
          /\ Len(tileset.observer_list) < MaxObservers
          /\ next_observer < MaxAttach
          /\ IF ~alloc_ok
               THEN Gone([NoOp EXCEPT !.op = "attach"], "crashed", 0, <<>>)
               ELSE /\ lastOp' = op
                    /\ ret' = 1
                    /\ trace' = <<>>
                    /\ buffer' = EmptyArray
                    /\ tileset' = TCOD_tileset_observer_new(tileset,
                                                            next_observer)
                    /\ next_observer' = next_observer + 1
                    /\ UNCHANGED <<heap, origin, base_tiles, n_share,
                                   n_release, touched, ended>>

\* The caller fills in the hooks of the observer it was just handed (the
\* node at position i, whose hooks are still NULL).
SetHooks(i, changed, status, deleted) ==
  /\ heap = "live"
  /\ i \in 1..Len(tileset.observer_list)
  /\ ~tileset.observer_list[i].on_tileset_changed
  /\ ~tileset.observer_list[i].on_observer_delete
  /\ changed \/ deleted
  /\ changed \/ status = 0
  /\ Updates([NoOp EXCEPT !.op = "set_hooks",
                          !.observer = tileset.observer_list[i].id],
             0, <<>>,
             [tileset EXCEPT
                !.observer_list[i].on_tileset_changed = changed,
                !.observer_list[i].changed_status = status,
                !.observer_list[i].on_observer_delete = deleted],
             {})

\* detach(observer): TCOD_tileset_observer_delete of the attached node at
\* position i; i = 0 is detach(NULL).
Detach(i) ==
  /\ heap = "live"
  /\ i \in 0..Len(tileset.observer_list)
  /\ IF i = 0
       THEN Returns([NoOp EXCEPT !.op = "detach"], 0, <<>>)
       ELSE LET done == TCOD_tileset_observer_delete(tileset, i)
            IN Updates([NoOp EXCEPT !.op = "detach",
                                    !.observer = tileset.observer_list[i].id],
                       0, done.trace, done.ts, {})

\* share(): one more owner.
Share ==
  /\ heap = "live"
  /\ n_share < MaxShare
  /\ lastOp' = [NoOp EXCEPT !.op = "share"]
  /\ ret' = 0
  /\ trace' = <<>>
  /\ buffer' = EmptyArray
  /\ tileset' = [tileset EXCEPT !.ref_count = tileset.ref_count + 1]
  /\ n_share' = n_share + 1
  /\ UNCHANGED <<heap, origin, base_tiles, next_observer, n_release, touched,
                 ended>>

\* release(): TCOD_tileset_delete
Release ==
  LET op == [NoOp EXCEPT !.op = "release"]
      done == TCOD_tileset_delete(tileset)
  IN IF heap = "null" THEN Returns(op, 0, <<>>)
     ELSE /\ heap = "live"
          /\ lastOp' = op
          /\ ret' = 0
          /\ trace' = done.trace
          /\ buffer' = EmptyArray
          /\ heap' = IF done.freed THEN "freed" ELSE "live"
          /\ tileset' = done.ts
          /\ n_release' = n_release + 1
          /\ ended' = ended \o ObserverEnds(done.trace)
          /\ UNCHANGED <<origin, base_tiles, next_observer, n_share, touched>>

Init ==
  /\ heap = "null"
  /\ tileset = ZeroTileset
  /\ origin = "none"
  /\ base_tiles = 0
  /\ next_observer = 0
  /\ lastOp = NoOp
  /\ ret = 0
  /\ buffer = EmptyArray
  /\ trace = <<>>
  /\ n_share = 0
  /\ n_release = 0
  /\ touched = {}
  /\ ended = <<>>

----------------------------------------------------------------------------
(* Inputs and specifications                                                *)

GrayOpaque == RGBA(128, 128, 128, 255)
Green == RGBA(0, 255, 0, 255)

\* Codepoints: invalid, the first, and one beyond the default charmap.
Codepoints == {-1, 0, 300}
\* The blocks a caller writes: tile_length pixels, each grey or green.
Blocks(tile_length) == [0..(tile_length - 1) -> {GrayOpaque, Green}]
\* Tile ids handed to assign: from an invalid one up to the bound.
TileIds == -1..MaxTiles
\* The outcomes of an allocation: it is made and succeeds or fails, or it is
\* not made at all.
AllocOutcomes(made) == IF made THEN BOOLEAN ELSE {TRUE}
\* Would set_tile / assign have to realloc the arena, the charmap?
NeedsArena(codepoint) ==
  /\ TCOD_tileset_get_charmap(tileset, codepoint) < 0
  /\ tileset.tiles_count = tileset.tiles_capacity
NeedsCharmap(codepoint) ==
  codepoint >= 0 /\ codepoint >= tileset.character_map_length

\* The bound on tiles: a set_tile that would generate a tile is made only
\* while tiles_count is below max_tiles.
MayWrite(codepoint, max_tiles) ==
  \/ heap = "null"
  \/ TCOD_tileset_get_charmap(tileset, codepoint) >= 0
  \/ tileset.tiles_count < max_tiles

\* Tiles and charmap of a created tileset.
Next ==
  \/ \E alloc_ok \in BOOLEAN : Create(1, 1, alloc_ok)
  \/ \E c \in Codepoints, b \in Blocks(tileset.tile_length) :
       \E alloc_pixels \in AllocOutcomes(NeedsArena(c)),
          alloc_charmap \in AllocOutcomes(NeedsCharmap(c)) :
         MayWrite(c, MaxTiles) /\ SetTile(c, b, alloc_pixels, alloc_charmap)
  \/ \E c \in Codepoints, has_buffer \in BOOLEAN : GetTile(c, has_buffer)
  \/ \E c \in Codepoints, t \in TileIds :
       \E alloc_ok \in AllocOutcomes(NeedsCharmap(c)) : Assign(c, t, alloc_ok)

Spec == Init /\ [][Next]_vars

\* The hooks a caller gives an observer: <<has a change hook, the status
\* it returns, has a deletion hook>>.
HookConfigs == {<<TRUE, 0, FALSE>>, <<TRUE, 7, FALSE>>, <<FALSE, 0, TRUE>>}
OneBlock(tile_length) == Filled(tile_length, GrayOpaque)

\* Observers of a created tileset and the writes that notify them.
NextObs ==
  \/ \E alloc_ok \in BOOLEAN : Create(1, 1, alloc_ok)
  \/ \E alloc_ok \in BOOLEAN : Attach(alloc_ok)
  \/ \E i \in 1..MaxObservers, h \in HookConfigs : SetHooks(i, h[1], h[2], h[3])
  \/ \E i \in 0..MaxObservers : Detach(i)
  \/ \E c \in {0, -1} :
       \E alloc_pixels \in AllocOutcomes(NeedsArena(c)),
          alloc_charmap \in AllocOutcomes(NeedsCharmap(c)) :
         /\ MayWrite(c, MaxTiles)
         /\ SetTile(c, OneBlock(tileset.tile_length), alloc_pixels,
                    alloc_charmap)

SpecObs == Init /\ [][NextObs]_vars

\* The owners of a created tileset: share, release, and what is torn down.
NextRef ==
  \/ \E alloc_ok \in BOOLEAN : Create(1, 1, alloc_ok)
  \/ Share
  \/ Release
  \/ Attach(TRUE)
  \/ \E i \in 1..MaxObservers, h \in {<<TRUE, 0, FALSE>>, <<FALSE, 0, TRUE>>} :
       SetHooks(i, h[1], h[2], h[3])
  \/ /\ MayWrite(0, MaxTiles)
     /\ SetTile(0, OneBlock(tileset.tile_length), TRUE, TRUE)
  \/ GetTile(0, TRUE)

SpecRef == Init /\ [][NextRef]_vars

\* Scenario A: a tileset of 8 x 8 tiles, written at codepoints 65, 66 and
\* 67 with an all-grey and an all-green block, and read at 65 and 66.
NextA ==
  \/ \E alloc_ok \in BOOLEAN : Create(8, 8, alloc_ok)
  \/ \E c \in {65, 66, 67}, p \in {GrayOpaque, Green} :
       \E alloc_pixels \in AllocOutcomes(NeedsArena(c)),
          alloc_charmap \in AllocOutcomes(NeedsCharmap(c)) :
         /\ MayWrite(c, MaxTiles)
         /\ SetTile(c, Filled(tileset.tile_length, p), alloc_pixels,
                    alloc_charmap)
  \/ \E c \in {65, 66}, has_buffer \in BOOLEAN : GetTile(c, has_buffer)

SpecA == Init /\ [][NextA]_vars

\* The loader's inputs: images of two cells of 2 x 1 pixels, side by side or
\* one above the other, every pixel green, opaque grey of two levels or
\* half-transparent white; no codepoint list or one of a few lists.
WhiteHalf == RGBA(255, 255, 255, 128)
DarkOpaque == RGBA(64, 64, 64, 255)
Palette == {Green, GrayOpaque, DarkOpaque, WhiteHalf}
Grids ==
  { [font_width |-> 4, font_height |-> 1, columns |-> 2, rows |-> 1],
    [font_width |-> 2, font_height |-> 2, columns |-> 1, rows |-> 2] }
Images(grid) == [0..(grid.font_width * grid.font_height - 1) -> Palette]
NoList == [has |-> FALSE, list |-> <<>>]
Lists ==
  { NoList } \cup
  { [has |-> TRUE, list |-> l] :
      l \in {<<65>>, <<65, 300>>, <<0, -1>>, <<5, 6, 7>>} }
\* What can fail in a load: nothing, the decoding, the calloc of the
\* tileset, the malloc of the arena, a realloc of the charmap.
Failures == {"none", "decode", "new", "pixels", "charmap"}

LoadOf(image, grid, l, failure) ==
  Load(image, grid.font_width, grid.font_height, grid.columns, grid.rows,
       Len(l.list), l.has, l.list, failure # "decode", failure # "new",
       failure # "pixels", failure # "charmap")

\* One load, then reads of the loaded tileset.
NextLoad ==
  \/ \E grid \in Grids, l \in Lists, failure \in Failures :
       \E image \in Images(grid) :
         lastOp.op = "none" /\ LoadOf(image, grid, l, failure)
  \/ \E c \in {0, 65}, has_buffer \in BOOLEAN : GetTile(c, has_buffer)

SpecLoad == Init /\ [][NextLoad]_vars

\* The growth of the arena: of a created tileset, whose tiles are taken up
\* to MaxGrowTiles, and of a loaded one of two cells, written at codepoints
\* beyond its charmap until it holds MaxLoadTiles tiles.
GrowImages ==
  { [i \in 0..3 |-> IF i < 2 THEN Green ELSE GrayOpaque],
    [i \in 0..3 |-> IF i = 1 THEN Green ELSE WhiteHalf] }
GrowCodepoints == {-1, 300, 600, 1100}
NextGrow ==
  \/ \E alloc_ok \in BOOLEAN : Create(1, 1, alloc_ok)
  \/ \E image \in GrowImages, failure \in {"none", "pixels"} :
       /\ lastOp.op = "none"
       /\ LoadOf(image, [font_width |-> 4, font_height |-> 1, columns |-> 2,
                         rows |-> 1], NoList, failure)
  \/ \E c \in {-1, 0} :
       \E alloc_pixels \in AllocOutcomes(NeedsArena(c)),
          alloc_charmap \in AllocOutcomes(NeedsCharmap(c)) :
         /\ origin # "load"
         /\ MayWrite(c, MaxGrowTiles)
         /\ SetTile(c, OneBlock(tileset.tile_length), alloc_pixels,
                    alloc_charmap)
  \/ \E c \in GrowCodepoints :
       \E alloc_pixels \in AllocOutcomes(NeedsArena(c)),
          alloc_charmap \in AllocOutcomes(NeedsCharmap(c)) :
         /\ origin = "load"
         /\ MayWrite(c, MaxLoadTiles)
         /\ SetTile(c, OneBlock(tileset.tile_length), alloc_pixels,
                    alloc_charmap)

SpecGrow == Init /\ [][NextGrow]_vars

\* Writes at three codepoints of a created tileset, two of them inside the
\* charmap the third one makes, and reads; no assign.
NextFrame ==
  \/ \E alloc_ok \in BOOLEAN : Create(1, 1, alloc_ok)
  \/ \E c \in {0, 1, 300}, b \in Blocks(tileset.tile_length) :
       \E alloc_pixels \in AllocOutcomes(NeedsArena(c)),
          alloc_charmap \in AllocOutcomes(NeedsCharmap(c)) :
         MayWrite(c, MaxTiles) /\ SetTile(c, b, alloc_pixels, alloc_charmap)
  \/ \E c \in {0, 1, 300}, has_buffer \in BOOLEAN : GetTile(c, has_buffer)

SpecFrame == Init /\ [][NextFrame]_vars

\* Every call on tiles and charmap, on a created tileset and on a loaded
\* one of two cells: a loaded tileset takes tiles up to MaxLoadTiles.
TileBound == IF origin = "load" THEN MaxLoadTiles ELSE MaxTiles
NextAll ==
  \/ \E alloc_ok \in BOOLEAN : Create(1, 1, alloc_ok)
  \/ \E image \in GrowImages, failure \in Failures,
        l \in {NoList, [has |-> TRUE, list |-> <<65>>]} :
       LoadOf(image, [font_width |-> 4, font_height |-> 1, columns |-> 2,
                      rows |-> 1], l, failure)
  \/ \E c \in Codepoints :
       \E alloc_pixels \in AllocOutcomes(NeedsArena(c)),
          alloc_charmap \in AllocOutcomes(NeedsCharmap(c)) :
         /\ MayWrite(c, TileBound)
         /\ SetTile(c, OneBlock(tileset.tile_length), alloc_pixels,
                    alloc_charmap)
  \/ \E c \in Codepoints : GetTile(c, TRUE)
  \/ \E c \in Codepoints, t \in TileIds :
       \E alloc_ok \in AllocOutcomes(NeedsCharmap(c)) : Assign(c, t, alloc_ok)

SpecAll == Init /\ [][NextAll]_vars

\* assign at the int width: codepoints up to IntMax, on a created tileset
\* with one tile written.
IntCodepoints ==
  {0, 255, 256, 2 ^ (IntBits - 3), 2 ^ (IntBits - 2) - 1, 2 ^ (IntBits - 2),
   IntMax}
NextInt ==
  \/ \E alloc_ok \in BOOLEAN : Create(1, 1, alloc_ok)
  \/ /\ MayWrite(0, MaxTiles)
     /\ SetTile(0, OneBlock(tileset.tile_length), TRUE, TRUE)
  \/ \E c \in IntCodepoints, t \in 0..1 :
       \E alloc_ok \in AllocOutcomes(NeedsCharmap(c)),
          overflow \in {"wraps", "traps"} :
         AssignInt(c, t, alloc_ok, overflow)
  \/ \E c \in IntCodepoints : GetTile(c, TRUE)

SpecInt == Init /\ [][NextInt]_vars

\* The lives of observers: attach, hooks, detach (of NULL too), and the
\* owners' share and release.
NextDel ==
  \/ \E alloc_ok \in BOOLEAN : Create(1, 1, alloc_ok)
  \/ \E alloc_ok \in BOOLEAN : Attach(alloc_ok)
  \/ \E i \in 1..MaxObservers, h \in {<<TRUE, 0, FALSE>>, <<FALSE, 0, TRUE>>} :
       SetHooks(i, h[1], h[2], h[3])
  \/ \E i \in 0..MaxObservers : Detach(i)
  \/ Share
  \/ Release

SpecDel == Init /\ [][NextDel]_vars

----------------------------------------------------------------------------
(* Properties of tiles and charmap, under Spec                              *)

\* What lookup(c) returns in the current state.
Lookup(c) == TCOD_tileset_get_charmap(tileset, c)

\* C1: after set_tile(c, block) returns success for a codepoint c >= 0, a
\* get_tile(c, buf) made in the state it leaves returns success and buf
\* equals block, whether c was beyond the charmap, inside it and never
\* assigned, or already mapped.
C1_SetThenGet ==
  (heap = "live" /\ lastOp.op = "set_tile" /\ ret = 0
     /\ lastOp.codepoint >= 0) =>
    LET got == TCOD_tileset_get_tile_(tileset, lastOp.codepoint, TRUE,
                                      Scratch(tileset.tile_length))
    IN got.ret = 0 /\ got.buffer = lastOp.block

\* A successful set_tile of a non-blank block on a codepoint whose charmap
\* entry reads 0 (inside the charmap, no tile of its own).
C1_Witness ==
  /\ heap = "live" /\ lastOp.op = "set_tile" /\ ret = 0
  /\ lastOp.codepoint >= 0
  /\ Lookup(lastOp.codepoint) = 0
  /\ lastOp.block # Filled(tileset.tile_length, ZeroPixel)
  /\ Lookup(300) > 0

\* C2: when assign(c, 0) has just succeeded, the set_tile(c, block) that
\* follows allocates a new tile id: tiles_count grows by one, lookup(c)
\* becomes that new positive id, and tile 0 is not written.
C2_WriteAfterAssignZeroAllocates ==
  [][ ( /\ heap = "live" /\ lastOp.op = "assign" /\ lastOp.tile_id = 0
        /\ ret = 0
        /\ lastOp'.op = "set_tile"
        /\ lastOp'.codepoint = lastOp.codepoint )
      => /\ tileset'.tiles_count = tileset.tiles_count + 1
         /\ TCOD_tileset_get_charmap(tileset', lastOp.codepoint)
              = tileset.tiles_count
         /\ TCOD_tileset_get_charmap(tileset', lastOp.codepoint) > 0
         /\ TileAt(tileset', 0) = TileAt(tileset, 0) ]_vars

\* C3: a successful assign(c, t) returns t and leaves lookup(c) = t, and an
\* assign on a codepoint d, successful or failed, growing the charmap or
\* not, leaves lookup(c) as it was for every other c the charmap holds.
C3_AssignKeepsMappings ==
  [][ (heap = "live" /\ lastOp'.op = "assign") =>
        /\ ret' >= 0 =>
             /\ ret' = lastOp'.tile_id
             /\ TCOD_tileset_get_charmap(tileset', lastOp'.codepoint)
                  = lastOp'.tile_id
        /\ \A c \in 0..(tileset.character_map_length - 1) :
             c # lastOp'.codepoint =>
               TCOD_tileset_get_charmap(tileset', c) = Lookup(c) ]_vars

\* An assign to codepoint 300 has succeeded on a charmap grown to 512
\* entries that still maps codepoint 0 to the tile it was given before.
C3_Witness ==
  /\ heap = "live" /\ lastOp.op = "assign" /\ lastOp.codepoint = 300
  /\ ret = lastOp.tile_id
  /\ tileset.character_map_length = 2 * DEFAULT_CHARMAP_LENGTH
  /\ 0 \in touched /\ Lookup(0) = 1 /\ Lookup(300) # 1

\* C8 as stated: get_tile(c, buf) fails and leaves buf untouched for every
\* codepoint that was never assigned or written, and succeeds only for
\* codepoints that were.
C8_GetTileOnlyMapped ==
  (heap = "live" /\ lastOp.op = "get_tile"
     /\ lastOp.codepoint \notin touched) =>
    /\ ret = -1
    /\ buffer = (IF lastOp.has_buffer THEN Scratch(tileset.tile_length)
                                      ELSE EmptyArray)

\* C8 amended: get_tile(c, buf) fails, buf untouched, exactly when c is
\* negative or at or beyond the charmap's length; for every c inside the
\* charmap it succeeds and copies the tile of the stored id, which for a
\* codepoint never assigned or written is the blank tile 0.
C8_GetTileInRange ==
  (heap = "live" /\ lastOp.op = "get_tile") =>
    LET c == lastOp.codepoint
        untouched == IF lastOp.has_buffer THEN Scratch(tileset.tile_length)
                                          ELSE EmptyArray
    IN /\ ret \in {0, -1}
       /\ ret = -1 <=> (c < 0 \/ c >= tileset.character_map_length)
       /\ ret = -1 => buffer = untouched
       /\ (ret = 0 /\ ~lastOp.has_buffer) => buffer = untouched
       /\ (ret = 0 /\ lastOp.has_buffer) =>
            buffer = TileAt(tileset, tileset.character_map[c])
       /\ (ret = 0 /\ c \notin touched) => tileset.character_map[c] = 0

\* get_tile has succeeded, copying the blank tile, for a codepoint inside
\* the charmap that was never assigned or written.
C8_Witness ==
  /\ heap = "live" /\ lastOp.op = "get_tile" /\ ret = 0
  /\ lastOp.has_buffer
  /\ lastOp.codepoint \notin touched
  /\ buffer = Filled(tileset.tile_length, ZeroPixel)

\* C9: set_tile with a negative codepoint returns a failure status, leaves
\* tiles_count, tiles_capacity, the charmap and every pixel as they were,
\* and invokes no hook.
C9_InvalidSetTileChangesNothing ==
  [][ (heap = "live" /\ lastOp'.op = "set_tile" /\ lastOp'.codepoint < 0) =>
        /\ ret' # 0
        /\ tileset' = tileset
        /\ trace' = <<>> ]_vars

----------------------------------------------------------------------------
(* Properties of the observer list, under SpecObs                           *)

\* The entries of a trace that are calls of the given hook.
HookCalls(events, hook) == SelectSeq(events, LAMBDA e : e.event = hook)
\* The observers of the list that have a change hook, in list order.
Hooked(list) == SelectSeq(list, LAMBDA o : o.on_tileset_changed)

\* C4: the registry holds the observers most recently attached first; a
\* set_tile that wrote its block invokes the change hooks in that order, each
\* at most once; a hook that returns nonzero ends the calls and its status
\* is what set_tile returns; when every hook returns zero all observers
\* with a hook are invoked and set_tile returns success.
C4_NotifyOrder ==
  (heap = "live" /\ lastOp.op = "set_tile" /\ trace # <<>>) =>
    LET list == tileset.observer_list
        hooked == Hooked(list)
        calls == HookCalls(trace, "on_tileset_changed")
        last == Len(calls)
    IN /\ \A i, j \in 1..Len(list) : i < j => list[i].id > list[j].id
       /\ last <= Len(hooked)
       /\ \A k \in 1..last : calls[k].observer = hooked[k].id
       /\ \A k \in 1..(last - 1) : hooked[k].changed_status = 0
       /\ ret # 0 => (last >= 1 /\ hooked[last].changed_status = ret)
       /\ ret = 0 => (/\ last = Len(hooked)
                      /\ \A k \in 1..last : hooked[k].changed_status = 0)

\* O1 then O2 were attached, both with a change hook; O2's hook returned 7,
\* which set_tile returned without calling O1's hook.
C4_Witness ==
  /\ heap = "live" /\ lastOp.op = "set_tile" /\ ret = 7
  /\ Len(tileset.observer_list) = 2
  /\ \A i \in 1..2 : tileset.observer_list[i].on_tileset_changed
  /\ tileset.observer_list[1].id > tileset.observer_list[2].id
  /\ Len(HookCalls(trace, "on_tileset_changed")) = 1
  /\ HookCalls(trace, "on_tileset_changed")[1].observer
       = tileset.observer_list[1].id

----------------------------------------------------------------------------
(* Properties of the reference count, under SpecRef                         *)

\* The positions in a trace of the entries for the given event and observer.
Positions(events, event, observer) ==
  {k \in 1..Len(events) :
     events[k].event = event /\ events[k].observer = observer}

\* C5: a live tileset has ref_count = 1 + shares - releases > 0 and a
\* destroyed one has had 1 + shares releases; a release that leaves
\* ref_count above zero changes nothing else; the release that brings it to
\* zero unlinks and frees every remaining observer, calling the deletion
\* hook of each one that has it once, before the pixel arena and the charmap
\* are freed, and leaves the registry empty.
C5_ReleaseDestroysAtZero ==
  [][ /\ heap' = "live" =>
           /\ tileset'.ref_count = 1 + n_share' - n_release'
           /\ tileset'.ref_count > 0
      /\ heap' = "freed" => n_release' = 1 + n_share'
      /\ (heap = "live" /\ lastOp'.op = "release") =>
           IF tileset.ref_count > 1
             THEN /\ heap' = "live"
                  /\ tileset' = [tileset EXCEPT
                                   !.ref_count = tileset.ref_count - 1]
                  /\ trace' = <<>>
             ELSE /\ heap' = "freed"
                  /\ tileset'.observer_list = <<>>
                  /\ \A i \in 1..Len(tileset.observer_list) :
                       LET o == tileset.observer_list[i]
                           hook == Positions(trace', "on_observer_delete", o.id)
                           free == Positions(trace', "free_observer", o.id)
                       IN /\ Cardinality(free) = 1
                          /\ Cardinality(hook) =
                               (IF o.on_observer_delete THEN 1 ELSE 0)
                          /\ \A h \in hook, f \in free : h < f
                  /\ \E p \in Positions(trace', "free_pixels", -1),
                        c \in Positions(trace', "free_character_map", -1) :
                       \A k \in 1..Len(trace') :
                         trace'[k].observer # -1 => (k < p /\ k < c) ]_vars

\* The tileset was shared once and released twice; the second release
\* destroyed it and called a deletion hook on the way.
C5_Witness ==
  /\ heap = "freed" /\ lastOp.op = "release"
  /\ n_share = 1 /\ n_release = 2
  /\ HookCalls(trace, "on_observer_delete") # <<>>
  /\ tileset.tiles_count > 0

----------------------------------------------------------------------------
(* Scenario A, under SpecA                                                  *)

\* set_tile(65, all-grey block) has written its block on a tileset made
\* with create(8, 8).
ScenarioA ==
  /\ heap = "live" /\ origin = "create"
  /\ tileset.tile_width = 8 /\ tileset.tile_height = 8
  /\ lastOp.op = "set_tile" /\ lastOp.codepoint = 65
  /\ lastOp.block = Filled(tileset.tile_length, GrayOpaque)
  /\ trace # <<>>

\* C6 as stated: after set_tile(65, block) with every pixel of block
\* {128,128,128,255} on a tileset made with create(8, 8), every pixel of the
\* block stored for codepoint 65 is {255,255,255,128}.
C6_WriteConvertsGray ==
  ScenarioA =>
    TileAt(tileset, Lookup(65)) =
      Filled(tileset.tile_length, RGBA(255, 255, 255, 128))

\* C6 amended: after that set_tile every pixel of the block stored for
\* codepoint 65 is {128,128,128,255}: the write path copies the block as it
\* is.
C6_WriteCopiesGray ==
  ScenarioA =>
    /\ Lookup(65) >= 0
    /\ ArrayLen(TileAt(tileset, Lookup(65))) = 8 * 8
    /\ \A k \in 0..(8 * 8 - 1) :
         TileAt(tileset, Lookup(65))[k] = RGBA(128, 128, 128, 255)

\* Scenario A has run and set_tile returned success.
C6_Witness == ScenarioA /\ ret = 0 /\ Lookup(65) > 0

----------------------------------------------------------------------------
(* Properties of the loader, under SpecLoad                                 *)

\* The geometry of the last load.
LoadedTileWidth == lastOp.font_width \div lastOp.columns
LoadedTileHeight ==
  (ArrayLen(lastOp.image) \div lastOp.font_width) \div lastOp.rows
\* The pixel of the image that is pixel (x, y) of cell i, and the pixel the
\* tileset holds for it.
OriginalPixel(i, x, y) ==
  lastOp.image[((i \div lastOp.columns) * LoadedTileHeight + y)
                  * lastOp.font_width
               + (i % lastOp.columns) * LoadedTileWidth + x]
StoredPixel(i, x, y) ==
  tileset.pixels[i * tileset.tile_length + y * tileset.tile_width + x]

\* A load has returned a tileset and cell 0 of the image was of one colour.
LoadedWithKey ==
  /\ heap = "live" /\ lastOp.op = "load"
  /\ \A xy \in CellXY(LoadedTileWidth, LoadedTileHeight) :
       OriginalPixel(0, xy[1], xy[2]) = lastOp.image[0]

\* C7: when the loader detects a color key, every pixel of every cell whose
\* original value equals the key is stored as {0,0,0,0}, and no pixel whose
\* original value differs from the key is zeroed; for every key value.
C7_KeyFromOriginal ==
  LoadedWithKey =>
    \A i \in 0..(lastOp.columns * lastOp.rows - 1) :
      \A xy \in CellXY(LoadedTileWidth, LoadedTileHeight) :
        /\ OriginalPixel(i, xy[1], xy[2]) = lastOp.image[0]
             => StoredPixel(i, xy[1], xy[2]) = ZeroPixel
        /\ OriginalPixel(i, xy[1], xy[2]) # lastOp.image[0]
             => StoredPixel(i, xy[1], xy[2]) # ZeroPixel

----------------------------------------------------------------------------
(* Properties of the arena's growth, under SpecGrow                         *)

\* capacity is base times a power of two.
RECURSIVE TimesPowerOfTwo(_, _)
TimesPowerOfTwo(base, capacity) ==
  \/ capacity = base
  \/ /\ capacity > base
     /\ capacity % 2 = 0
     /\ TimesPowerOfTwo(base, capacity \div 2)

\* A step that changes tiles_capacity of the live tileset doubles it (or
\* takes it from 0 to 256), keeps every pixel there was, and leaves every
\* tile it adds all-zero, but for the tile written by the same call.
GrowthStep ==
  (heap = "live" /\ heap' = "live"
     /\ tileset'.tiles_capacity # tileset.tiles_capacity) =>
    /\ \/ tileset'.tiles_capacity = 2 * tileset.tiles_capacity
       \/ tileset.tiles_capacity = 0 /\ tileset'.tiles_capacity = 256
    /\ \A i \in DOMAIN tileset.pixels : tileset'.pixels[i] = tileset.pixels[i]
    /\ \A t \in tileset.tiles_capacity..(tileset'.tiles_capacity - 1) :
         \/ TileAt(tileset', t) = Filled(tileset.tile_length, ZeroPixel)
         \/ \E k \in 1..Len(trace') :
              trace'[k].event = "memcpy" /\ trace'[k].tile_id = t

\* The tile ids not handed out yet read as all-zero pixels.
UnusedTilesBlank(ts) ==
  \A t \in ts.tiles_count..(ts.tiles_capacity - 1) :
    TileAt(ts, t) = Filled(ts.tile_length, ZeroPixel)

\* C10 as stated: tiles_capacity of every tileset, created or loaded, is 0
\* or 256 times a power of two; every change of it doubles it (or takes it
\* from 0 to 256), keeps the existing blocks and adds all-zero tiles.
C10_CapacityFrom256 ==
  [][ /\ heap' = "live" =>
           /\ \/ tileset'.tiles_capacity = 0
              \/ TimesPowerOfTwo(256, tileset'.tiles_capacity)
           /\ UnusedTilesBlank(tileset')
      /\ GrowthStep ]_vars

\* C10 amended: tiles_capacity of a created tileset is 0 or 256 times a
\* power of two, that of a loaded tileset is columns * rows (the capacity
\* the loader allocates) times a power of two; every change of it doubles it
\* (or takes it from 0 to 256), keeps the existing blocks and adds all-zero
\* tiles, which read as zero until written.
C10_CapacityDoubles ==
  [][ /\ heap' = "live" =>
           /\ base_tiles' = (IF origin' = "load"
                               THEN lastOp'.columns * lastOp'.rows
                               ELSE 0)
                \/ lastOp'.op # "load"
           /\ IF base_tiles' = 0
                THEN \/ tileset'.tiles_capacity = 0
                     \/ TimesPowerOfTwo(256, tileset'.tiles_capacity)
                ELSE TimesPowerOfTwo(base_tiles', tileset'.tiles_capacity)
           /\ origin' = "create" => base_tiles' = 0
           /\ UnusedTilesBlank(tileset')
      /\ GrowthStep ]_vars

\* A loaded tileset of two cells has grown twice, to 8 tiles, by writes at
\* three codepoints beyond its charmap, and its second cell's pixels are
\* still there.
C10_Witness ==
  /\ heap = "live" /\ origin = "load" /\ base_tiles = 2
  /\ tileset.tiles_capacity = 8
  /\ Lookup(300) = 2 /\ Lookup(600) = 3 /\ Lookup(1100) = 4
  /\ TileAt(tileset, 1) # Filled(tileset.tile_length, ZeroPixel)

\* A created tileset has grown from 256 to 512 tiles and the tile written
\* before is still there.
C10_WitnessCreated ==
  /\ heap = "live" /\ origin = "create"
  /\ tileset.tiles_capacity = 2 * 256
  /\ Lookup(0) > 0 /\ Lookup(0) < 256
  /\ TileAt(tileset, Lookup(0)) = OneBlock(tileset.tile_length)


----------------------------------------------------------------------------
(* Properties of the observers' deletion, under SpecDel                     *)

\* The identities of the observers of a list.
Attached(list) == {list[i].id : i \in 1..Len(list)}

\* C11: over the life of a tileset the deletion hook of an observer is
\* called at most once; an attached observer has not been ended; one that
\* was detached, or whose tileset was destroyed, has been freed once, after
\* its hook if it was called; the call that takes an observer out of the
\* registry calls its deletion hook once when it has one; detach(NULL)
\* calls no hook and leaves the registry as it was.
C11_DeletionHookOnce ==
  [][ /\ heap' \in {"live", "freed"} =>
           \A o \in 0..(next_observer' - 1) :
             LET hook == Positions(ended', "on_observer_delete", o)
                 free == Positions(ended', "free_observer", o)
             IN /\ Cardinality(hook) <= 1
                /\ IF o \in Attached(tileset'.observer_list)
                     THEN hook = {} /\ free = {}
                     ELSE /\ Cardinality(free) = 1
                          /\ \A h \in hook, f \in free : h < f
      /\ (heap = "live" /\ heap' \in {"live", "freed"}) =>
           \A i \in 1..Len(tileset.observer_list) :
             LET o == tileset.observer_list[i]
             IN o.id \notin Attached(tileset'.observer_list) =>
                  Cardinality(Positions(trace', "on_observer_delete", o.id))
                    = (IF o.on_observer_delete THEN 1 ELSE 0)
      /\ (heap = "live" /\ lastOp'.op = "detach" /\ lastOp'.observer = -1) =>
           /\ trace' = <<>>
           /\ tileset' = tileset
           /\ ended' = ended ]_vars

\* Two observers with a deletion hook were attached to a shared tileset; one
\* was detached, the other was still attached at the release that destroyed
\* the tileset, and each hook has been called.
C11_Witness ==
  /\ heap = "freed" /\ n_share = 1
  /\ Len(HookCalls(ended, "on_observer_delete")) = 2
  /\ Len(HookCalls(trace, "on_observer_delete")) = 1

\* detach(NULL) was called while an observer was attached.
C11_WitnessNull ==
  /\ heap = "live" /\ lastOp.op = "detach" /\ lastOp.observer = -1
  /\ tileset.observer_list # <<>>

----------------------------------------------------------------------------
(* Properties of the loader's normalization, under SpecLoad                 *)

\* The cells of the last load and the pixels of a cell.
LoadedCells == 0..(lastOp.columns * lastOp.rows - 1)
LoadedXY == CellXY(LoadedTileWidth, LoadedTileHeight)
\* A load has returned a tileset.
LoadedNow == heap = "live" /\ lastOp.op = "load"
\* Every pixel of cell i of the image is grey (R = G = B) and opaque.
GreyOpaqueCell(i) ==
  \A xy \in LoadedXY :
    LET p == OriginalPixel(i, xy[1], xy[2])
    IN p.r = p.g /\ p.r = p.b /\ p.a = 255
\* What normalization makes of pixel (x, y) of cell i.
NormalPixel(i, x, y) ==
  IF GreyOpaqueCell(i)
    THEN RGBA(255, 255, 255, OriginalPixel(i, x, y).r)
    ELSE OriginalPixel(i, x, y)
\* Cell 0 of the image is of one colour: a color key is detected.
KeyDetected ==
  \A xy \in LoadedXY : OriginalPixel(0, xy[1], xy[2]) = lastOp.image[0]

----------------------------------------------------------------------------
(* Properties of the loader's charmap, under SpecLoad                       *)

\* The number of codepoints the last load assigns and the i-th of them.
LoadedCount ==
  IF lastOp.has_charmap THEN lastOp.n ELSE lastOp.columns * lastOp.rows
LoadedCodepoint(i) == IF lastOp.has_charmap THEN lastOp.charmap[i + 1] ELSE i
\* The block of tile id t holds cell i of the image as the loader stores it:
\* each pixel normalized, or zero by the key substitution.
HoldsCell(t, i) ==
  \A xy \in LoadedXY :
    LET p == TileAt(tileset, t)[xy[2] * tileset.tile_width + xy[1]]
    IN \/ p = NormalPixel(i, xy[1], xy[2])
       \/ KeyDetected /\ p = ZeroPixel

\* C13: after a successful load every cell of the grid is stored, cell i as
\* tile id i; the codepoints assigned are pairwise distinct => the i-th of
\* them (i itself without a list) looks up to tile id i, for every i below
\* the number assigned; and no charmap entry holds the tile id of a cell at
\* or beyond that number.
C13_LoadedCharmap ==
  LoadedNow =>
    /\ tileset.tiles_count = lastOp.columns * lastOp.rows
    /\ ArrayLen(tileset.pixels) = tileset.tiles_count * tileset.tile_length
    /\ \A i \in LoadedCells : HoldsCell(i, i)
    /\ LoadedCount <= lastOp.columns * lastOp.rows
    /\ (\A i, j \in 0..(LoadedCount - 1) :
          i # j => LoadedCodepoint(i) # LoadedCodepoint(j)) =>
         \A i \in 0..(LoadedCount - 1) :
           /\ Lookup(LoadedCodepoint(i)) = i
           /\ HoldsCell(Lookup(LoadedCodepoint(i)), i)
    /\ \A c \in 0..(tileset.character_map_length - 1) :
         tileset.character_map[c] < LoadedCount
    /\ ~lastOp.has_charmap => \A i \in LoadedCells : Lookup(i) = i

\* A load with the list <<65>> on a grid of two cells: 65 maps to tile 0,
\* cell 1 is stored, not blank, and no codepoint maps to it.
C13_Witness ==
  /\ LoadedNow /\ lastOp.has_charmap /\ lastOp.charmap = <<65>>
  /\ Lookup(65) = 0
  /\ tileset.tiles_count = 2
  /\ TileAt(tileset, 1) # Filled(tileset.tile_length, ZeroPixel)
  /\ TileAt(tileset, 0) # TileAt(tileset, 1)

\* A load without a list on a grid of two cells whose contents differ.
C13_WitnessNoList ==
  /\ LoadedNow /\ ~lastOp.has_charmap
  /\ Lookup(1) = 1
  /\ TileAt(tileset, 0) # TileAt(tileset, 1)

----------------------------------------------------------------------------
(* Properties of the write and its notification, under SpecObs              *)

\* C14: a set_tile(c, block) that resolves c to a tile id copies the block
\* into that tile before any change hook is called, calls the hooks with
\* that tile id and c, and keeps the block stored whatever status a hook
\* returns: a get_tile(c) made after it returns block.  A set_tile whose
\* resolution or generation fails returns a negative status, changes no
\* pixel there was, adds only zero pixels and calls no hook.
C14_WriteBeforeNotify ==
  [][ (heap = "live" /\ lastOp'.op = "set_tile") =>
        LET c == lastOp'.codepoint
            tile_id == TCOD_tileset_get_charmap(tileset', c)
            got == TCOD_tileset_get_tile_(tileset', c, TRUE,
                                          Scratch(tileset'.tile_length))
        IN IF tile_id >= 0
             THEN /\ trace' # <<>>
                  /\ trace'[1] = Event("memcpy", -1, tile_id, c)
                  /\ \A k \in 2..Len(trace') :
                       /\ trace'[k].event = "on_tileset_changed"
                       /\ trace'[k].tile_id = tile_id
                       /\ trace'[k].codepoint = c
                  /\ got.ret = 0
                  /\ got.buffer = lastOp'.block
             ELSE /\ ret' < 0
                  /\ trace' = <<>>
                  /\ \A i \in DOMAIN tileset'.pixels :
                       tileset'.pixels[i] =
                         (IF i \in DOMAIN tileset.pixels
                            THEN tileset.pixels[i] ELSE ZeroPixel) ]_vars

\* The first write of a codepoint, on a tileset with an observer whose
\* hook returned 7: set_tile returned 7 after one hook call and the block is
\* stored.
C14_Witness ==
  /\ heap = "live" /\ lastOp.op = "set_tile" /\ ret = 7
  /\ Len(trace) = 2
  /\ trace[1].event = "memcpy" /\ trace[2].event = "on_tileset_changed"
  /\ base_tiles = 0 /\ tileset.tiles_count = 2
  /\ TileAt(tileset, Lookup(lastOp.codepoint)) = lastOp.block

----------------------------------------------------------------------------
(* Properties of assign's validation, under Spec                            *)

\* C15: assign(c, t) with c < 0 or t outside [0, tiles_count) returns an
\* error and leaves the charmap, its length, tiles_count and tiles_capacity
\* as they were (so every assign on a tileset that has no tile yet fails);
\* an assign that succeeds returns t, and c then looks up to t.
C15_AssignValidates ==
  [][ (heap = "live" /\ lastOp'.op = "assign") =>
        LET c == lastOp'.codepoint
            t == lastOp'.tile_id
        IN /\ (c < 0 \/ t < 0 \/ t >= tileset.tiles_count) =>
                /\ ret' < 0
                /\ tileset'.character_map_length = tileset.character_map_length
                /\ tileset'.character_map = tileset.character_map
                /\ tileset'.tiles_count = tileset.tiles_count
                /\ tileset'.tiles_capacity = tileset.tiles_capacity
           /\ ret' >= 0 =>
                /\ ret' = t
                /\ TCOD_tileset_get_charmap(tileset', c) = t ]_vars

\* assign(c, 0) with c >= 0 has failed on a tileset just created.
C15_Witness ==
  /\ heap = "live" /\ lastOp.op = "assign" /\ ret < 0
  /\ lastOp.codepoint >= 0 /\ lastOp.tile_id = 0
  /\ tileset.tiles_count = 0 /\ tileset.character_map_length = 0

\* assign(300, 1) has succeeded and grown the charmap.
C15_WitnessSuccess ==
  /\ heap = "live" /\ lastOp.op = "assign" /\ ret = 1
  /\ lastOp.codepoint = 300 /\ Lookup(300) = 1

----------------------------------------------------------------------------
(* Properties of tile 0 and of the tiles of distinct codepoints             *)

\* C16: in a tileset made by create, whatever set_tile and assign calls were
\* made, the block of tile id 0 is all-zero once the arena exists: no
\* set_tile writes into tile 0.
C16_TileZeroBlank ==
  (heap = "live" /\ origin = "create" /\ tileset.tiles_capacity > 0) =>
    TileAt(tileset, 0) = Filled(tileset.tile_length, ZeroPixel)

\* C17: a set_tile(c, block) that succeeds leaves the block get_tile(d)
\* returns as it was, for every codepoint d # c written by a set_tile
\* before, on a tileset where no assign was made.
C17_WriteKeepsOtherCodepoints ==
  [][ (heap = "live" /\ lastOp'.op = "set_tile" /\ ret' = 0) =>
        \A d \in touched \ {lastOp'.codepoint} :
          TileAt(tileset', TCOD_tileset_get_charmap(tileset', d))
            = TileAt(tileset, TCOD_tileset_get_charmap(tileset, d)) ]_vars

----------------------------------------------------------------------------
(* Properties of the arena's and the charmap's bounds, under SpecAll        *)

\* C18: in every state of a tileset, created or loaded, after assign,
\* set_tile and get_tile calls, failed ones included: tiles_count is at most
\* tiles_capacity, the arena holds tiles_capacity tiles, and every charmap
\* entry is a tile id in [0, tiles_count), so its block is inside the
\* arena.
C18_CountsAndEntriesInBounds ==
  heap = "live" =>
    /\ tileset.tiles_count <= tileset.tiles_capacity
    /\ ArrayLen(tileset.pixels)
         = tileset.tiles_capacity * tileset.tile_length
    /\ ArrayLen(tileset.character_map) = tileset.character_map_length
    /\ \A c \in 0..(tileset.character_map_length - 1) :
         /\ tileset.character_map[c] >= 0
         /\ tileset.character_map[c] < tileset.tiles_count

\* A loaded tileset of two cells after set_tile(300) took tile id 2 and a
\* set_tile(-1) failed: the arena is full at four tiles, and an assign has
\* mapped codepoint 0 to tile id 2 as well.
C18_Witness ==
  /\ heap = "live" /\ origin = "load"
  /\ tileset.tiles_count = 4 /\ tileset.tiles_capacity = 4
  /\ Lookup(300) = 2 /\ Lookup(0) = 2
  /\ lastOp.op = "get_tile" /\ lastOp.codepoint = -1 /\ ret < 0

----------------------------------------------------------------------------
(* Properties of assign at the int width, under SpecInt                     *)

\* C19: assign(c, t) with a valid tile id and 0 <= c <= IntMax returns (the
\* doubling loop ends, without overflow); when it succeeds and c was beyond
\* the charmap, the new length is the old one (256 when empty) doubled the
\* least number of times that makes it exceed c, the old entries are kept
\* and the new ones read 0, but for c's.
C19_DoublingTerminates ==
  [][ ( /\ heap = "live" /\ lastOp'.op = "assign"
        /\ lastOp'.codepoint >= 0 /\ lastOp'.codepoint <= IntMax
        /\ lastOp'.tile_id >= 0 /\ lastOp'.tile_id < tileset.tiles_count ) =>
        LET c == lastOp'.codepoint
            old == tileset.character_map_length
            base == IF old = 0 THEN 256 ELSE old
            new == tileset'.character_map_length
        IN /\ heap' = "live"
           /\ (ret' >= 0 /\ c >= old) =>
                /\ new > c
                /\ TimesPowerOfTwo(base, new)
                /\ new = base \/ new \div 2 <= c
                /\ new <= IntMax
                /\ \A i \in 0..(new - 1) :
                     tileset'.character_map[i] =
                       (IF i = c THEN lastOp'.tile_id
                        ELSE IF i < old THEN tileset.character_map[i]
                        ELSE 0) ]_vars

----------------------------------------------------------------------------
(* Properties of a load whose assignment fails, under SpecLoad              *)

\* The last call was a load that decoded its file and allocated the arena,
\* with a list that holds a negative codepoint or more codepoints than the
\* grid has cells.
LoadCannotAssign ==
  /\ lastOp.op = "load" /\ heap # "crashed"
  /\ lastOp.decode_ok /\ lastOp.alloc_pixels
  /\ lastOp.has_charmap
  /\ \/ lastOp.n > lastOp.columns * lastOp.rows
     \/ \E i \in 1..lastOp.n : lastOp.charmap[i] < 0

\* C20: a load whose charmap assignment fails returns no tileset, and has
\* freed the decoded image, then the arena, the charmap and the tileset,
\* each once (the one release of the tileset being built); and a tileset
\* that a load returns has every codepoint of the call mapped.
C20_FailedLoadReleases ==
  /\ LoadCannotAssign =>
       /\ heap = "null" /\ ret = 0
       /\ tileset = ZeroTileset
       /\ trace = <<Event("free_font", -1, -1, -1),
                    Event("free_pixels", -1, -1, -1),
                    Event("free_character_map", -1, -1, -1),
                    Event("free_tileset", -1, -1, -1)>>
  /\ LoadedNow =>
       /\ tileset.ref_count = 1
       /\ LoadedCount <= lastOp.columns * lastOp.rows
       /\ \A i \in 0..(LoadedCount - 1) :
            /\ LoadedCodepoint(i) >= 0
            /\ Lookup(LoadedCodepoint(i)) >= 0

\* A load with the list <<0, -1>> has failed at its second codepoint.
C20_Witness ==
  /\ LoadCannotAssign /\ lastOp.charmap = <<0, -1>>
  /\ heap = "null" /\ trace # <<>>

\* A load with three codepoints for a grid of two cells has failed.
C20_WitnessTooMany ==
  /\ LoadCannotAssign /\ lastOp.n = 3
  /\ heap = "null" /\ trace # <<>>

============================================================================
